---- MODULE Spec2Model ----
(***************************************************************************)
(* Model of scrape.py: the One Piece TCG -> TCG Arena card list generator. *)
(*                                                                         *)
(* fetch_all_cards (the collector), the sort in main, and                  *)
(* convert_to_tcg_arena (the transformer) are modelled over JSON values.   *)
(* Python strings are sequences of one-character strings, so that          *)
(* substring tests, rsplit, int() and str() are computed, not assumed.     *)
(***************************************************************************)
EXTENDS Integers, Sequences, FiniteSets, TLC

VARIABLES
    pc,          \* position in main / fetch_all_cards / add_cards
    idx,         \* index of the current element of SET_IDS / ST_IDS in a fallback loop
    failed,      \* history: whether the last request failed (no 200 response with a JSON list)
    remaining,   \* elements of the fetched list that add_cards has not iterated yet
    count,       \* add_cards' count while it runs (returned as n, which is only printed)
    all_raw,     \* fetch_all_cards' accumulator, later main's raw_cards (same list object)
    seen,        \* fetch_all_cards' set of seen card_set_id values
    requests,    \* history: the requests issued so far, in order
    bulk_empty,  \* history: the bulk groups whose bulk request gave fetch_json an empty list
    bulk_kept,   \* history: the bulk groups whose bulk response add_cards kept a record of
    delivered,   \* history: the non-empty identifiers that occurred in any iterated record
    repeated,    \* history: the identifiers that occurred in more than one iterated record
    first_any,   \* history: the first iterated record of each such identifier
    first_plain, \* history: the first iterated record of each identifier without "_p" in its image id
    sorted_runs, \* history: how many times main sorted raw_cards
    card_list,   \* convert_to_tcg_arena's result (a dict, as its items in insertion order)
    exc,         \* the exception that ended the run, or NoExc
    exit_status, \* the process's exit status, or -1 while it runs
    writes       \* history: the contents written to CardList.json, one per write

vars == <<pc, idx, failed, remaining, count, all_raw, seen, requests, bulk_empty, bulk_kept,
          delivered, repeated, first_any, first_plain, sorted_runs, card_list, exc,
          exit_status, writes>>

----------------------------------------------------------------------------
(* Bounds of the model.                                                    *)

\* longest list a response body holds
MaxResp == 2
\* how many identifiers of SET_IDS and of ST_IDS a fallback loop is followed over
MaxFallback == 2
\* largest magnitude of an integer or float field value
MaxNum == 3
\* longest identifier drawn for the group-code check
MaxIdLen == 4
\* longest input sequence drawn for convert_to_tcg_arena
MaxIn == 4

----------------------------------------------------------------------------
(* JSON values as Python sees them after resp.json().                      *)

Absent == [t |-> "absent"]
Null == [t |-> "null"]
JBool(b) == [t |-> "bool", b |-> b]
JInt(i) == [t |-> "int", i |-> i]
\* a finite float, held exactly as a count of halves: JFloat(7) is 3.5
JFloat(h) == [t |-> "float", halves |-> h]
JInf(neg) == [t |-> "inf", neg |-> neg]
NaN == [t |-> "nan"]
Str(s) == [t |-> "str", s |-> s]
JList == [t |-> "list"]
JObject == [t |-> "object"]

\* dict.get(key, default) on a raw record: the default only replaces a missing key
Get(raw, key, default) ==
    IF key \in DOMAIN raw /\ raw[key] # Absent THEN raw[key] ELSE default

\* Python truthiness of the values an identifier or image id takes here
Truthy(v) ==
    CASE v.t = "absent" -> FALSE
      [] v.t = "null" -> FALSE
      [] v.t = "str" -> v.s # <<>>
      [] v.t = "bool" -> v.b
      [] v.t = "int" -> v.i # 0
      [] OTHER -> TRUE

----------------------------------------------------------------------------
(* Python string operations on sequences of characters.                    *)

Digits == <<"0", "1", "2", "3", "4", "5", "6", "7", "8", "9">>

IsDigit(c) == \E d \in 1..10 : Digits[d] = c

DigitVal(c) == (CHOOSE d \in 1..10 : Digits[d] = c) - 1

\* needle in hay (str.__contains__)
Contains(hay, needle) ==
    \E i \in 0..(Len(hay) - Len(needle)) :
        \A j \in 1..Len(needle) : hay[i + j] = needle[j]

\* s.rsplit(sep, 1)[0] for a one-character sep: scan from the right for sep
RECURSIVE RSplitHead(_, _, _)
RSplitHead(s, sep, i) ==
    IF i = 0 THEN s
    ELSE IF s[i] = sep THEN SubSeq(s, 1, i - 1)
    ELSE RSplitHead(s, sep, i - 1)

\* str(i) for an int: decimal digits, "-" in front of a negative
RECURSIVE NatStr(_)
NatStr(i) ==
    IF i < 10 THEN <<Digits[i + 1]>>
    ELSE NatStr(i \div 10) \o <<Digits[(i % 10) + 1]>>

PyStr(i) == IF i < 0 THEN <<"-">> \o NatStr(-i) ELSE NatStr(i)

\* s.strip() of spaces
RECURSIVE Strip(_)
Strip(s) ==
    IF s = <<>> THEN s
    ELSE IF Head(s) = " " THEN Strip(Tail(s))
    ELSE IF s[Len(s)] = " " THEN Strip(SubSeq(s, 1, Len(s) - 1))
    ELSE s

RECURSIVE DigitsVal(_)
DigitsVal(s) ==
    IF s = <<>> THEN 0
    ELSE 10 * DigitsVal(SubSeq(s, 1, Len(s) - 1)) + DigitVal(s[Len(s)])

\* Python's < on str: by code point, a proper prefix first
CodePoint(c) ==
    CASE c = " " -> 32 [] c = "+" -> 43 [] c = "-" -> 45 [] c = "." -> 46
      [] IsDigit(c) -> 48 + DigitVal(c)
      [] c = "A" -> 65 [] c = "B" -> 66 [] c = "L" -> 76 [] c = "O" -> 79
      [] c = "P" -> 80 [] c = "S" -> 83 [] c = "T" -> 84 [] c = "_" -> 95
      [] c = "a" -> 97 [] c = "b" -> 98 [] c = "c" -> 99 [] c = "d" -> 100
      [] c = "f" -> 102 [] c = "p" -> 112 [] c = "u" -> 117 [] c = "y" -> 121

RECURSIVE StrLess(_, _)
StrLess(a, b) ==
    IF b = <<>> THEN FALSE
    ELSE IF a = <<>> THEN TRUE
    ELSE IF Head(a) = Head(b) THEN StrLess(Tail(a), Tail(b))
    ELSE CodePoint(Head(a)) < CodePoint(Head(b))

----------------------------------------------------------------------------
(* int(value): the value and no error, or the exception int() raises.      *)

IntOk(i) == [err |-> "none", i |-> i]
IntErr(e) == [err |-> e, i |-> 0]

\* int() of a str: spaces stripped, an optional sign, then decimal digits only
IntOfStr(s) ==
    LET body == Strip(s)
        signed == body # <<>> /\ Head(body) \in {"+", "-"}
        digits == IF signed THEN Tail(body) ELSE body
    IN IF digits # <<>> /\ \A k \in 1..Len(digits) : IsDigit(digits[k])
       THEN IntOk(IF signed /\ Head(body) = "-"
                  THEN -DigitsVal(digits) ELSE DigitsVal(digits))
       ELSE IntErr("ValueError")

PyInt(v) ==
    CASE v.t = "bool" -> IntOk(IF v.b THEN 1 ELSE 0)
      [] v.t = "int" -> IntOk(v.i)
      [] v.t = "float" ->
           \* truncation toward zero
           IntOk(IF v.halves >= 0 THEN v.halves \div 2 ELSE -((-v.halves) \div 2))
      [] v.t = "inf" -> IntErr("OverflowError")
      [] v.t = "nan" -> IntErr("ValueError")
      [] v.t = "str" -> IntOfStr(v.s)
      [] OTHER -> IntErr("TypeError")

\* try: int(x) if x is not None else 0 / except (ValueError, TypeError): 0
CoerceInt(v) ==
    IF v.t = "null" THEN IntOk(0)
    ELSE LET r == PyInt(v)
         IN IF r.err \in {"ValueError", "TypeError"} THEN IntOk(0) ELSE r

----------------------------------------------------------------------------
(* convert_to_tcg_arena.                                                   *)

\* s.split(sep, 1)[0]: scan from the left for sep
RECURSIVE SplitHead(_, _, _)
SplitHead(s, sep, i) ==
    IF i > Len(s) THEN s
    ELSE IF s[i] = sep THEN SubSeq(s, 1, i - 1)
    ELSE SplitHead(s, sep, i + 1)

\* a set code cut at the first separator
SetCodeFirst(card_set_id) == SplitHead(card_set_id, "-", 1)

\* set_code: card_set_id.rsplit("-", 1)[0] if "-" in card_set_id else card_set_id
SetCode(card_set_id) ==
    IF Contains(card_set_id, <<"-">>)
    THEN RSplitHead(card_set_id, "-", Len(card_set_id))
    ELSE card_set_id

Unknown == <<"U", "n", "k", "n", "o", "w", "n">>

\* a name read under the output's key instead of the source's
CardNameWrongKey(raw) == Get(raw, "name", Str(Unknown))

\* card_name = raw.get("card_name", "Unknown")
CardName(raw) == Get(raw, "card_name", Str(Unknown))

\* the body of the loop for one raw record with a truthy card_set_id:
\* the first exception that leaves it, and the entry it stores
ConvertOne(raw) ==
    LET card_set_id == Get(raw, "card_set_id", Str(<<>>))
        card_name == CardName(raw)
        card_type == Get(raw, "card_type", Str(<<"C", "h", "a", "r", "a", "c", "t", "e", "r">>))
        cost == CoerceInt(Get(raw, "card_cost", Null))
        power == CoerceInt(Get(raw, "card_power", Null))
        counter == CoerceInt(Get(raw, "counter_amount", Null))
        life == CoerceInt(Get(raw, "life", Null))
        is_horizontal == (card_type = Str(<<"S", "t", "a", "g", "e">>))
        errs == <<cost.err, power.err, counter.err, life.err>>
        bad == {k \in 1..4 : errs[k] # "none"}
    IN [err |-> IF bad = {} THEN "none"
                ELSE errs[CHOOSE k \in bad : \A m \in bad : k <= m],
        key |-> card_set_id,
        entry |-> [id |-> card_set_id,
                   name |-> card_name,
                   type |-> card_type,
                   face |-> [front |-> [name |-> card_name,
                                        type |-> card_type,
                                        cost |-> cost.i,
                                        isHorizontal |-> is_horizontal,
                                        image |-> Get(raw, "card_image", Str(<<>>))]],
                   Color |-> Get(raw, "card_color", Str(<<>>)),
                   cost |-> cost.i,
                   isHorizontal |-> is_horizontal,
                   Cost |-> PyStr(cost.i),
                   Power |-> PyStr(power.i),
                   Counter |-> PyStr(counter.i),
                   Life |-> PyStr(life.i),
                   Attribute |-> Get(raw, "attribute", Str(<<>>)),
                   Subtypes |-> Get(raw, "sub_types", Str(<<>>)),
                   Text |-> Get(raw, "card_text", Str(<<>>)),
                   Rarity |-> Get(raw, "rarity", Str(<<>>)),
                   Set |-> SetCode(card_set_id.s)]]

\* a dict that keeps the value a key was first given
DictSetDefault(d, key, value) ==
    IF \E k \in 1..Len(d) : d[k].key = key
    THEN d
    ELSE Append(d, [key |-> key, value |-> value])

\* card_list[key] = value on a dict held as its items in insertion order:
\* an existing key keeps its position and takes the new value
DictSet(d, key, value) ==
    IF \E k \in 1..Len(d) : d[k].key = key
    THEN [k \in 1..Len(d) |->
            IF d[k].key = key THEN [key |-> key, value |-> value] ELSE d[k]]
    ELSE Append(d, [key |-> key, value |-> value])

\* the for loop over raw_cards from position k with the dict built so far
RECURSIVE ConvertFrom(_, _, _)
ConvertFrom(raw_cards, k, d) ==
    IF k > Len(raw_cards) THEN [err |-> "none", card_list |-> d]
    ELSE IF ~Truthy(Get(raw_cards[k], "card_set_id", Str(<<>>)))
    THEN ConvertFrom(raw_cards, k + 1, d)
    ELSE LET one == ConvertOne(raw_cards[k])
         IN IF one.err # "none" THEN [err |-> one.err, card_list |-> <<>>]
            ELSE ConvertFrom(raw_cards, k + 1, DictSet(d, one.key, one.entry))

convert_to_tcg_arena(raw_cards) == ConvertFrom(raw_cards, 1, <<>>)

----------------------------------------------------------------------------
(* main's raw_cards.sort(key=(set_id, card_set_id)): stable, ascending.    *)

SortKey(c) ==
    <<Get(c, "set_id", Str(<<>>)).s, Get(c, "card_set_id", Str(<<>>)).s>>

KeyLess(a, b) ==
    IF a[1] # b[1] THEN StrLess(a[1], b[1]) ELSE StrLess(a[2], b[2])

\* insert c after every element whose key is not greater (stability)
RECURSIVE Insert(_, _)
Insert(s, c) ==
    IF s = <<>> THEN <<c>>
    ELSE IF KeyLess(SortKey(c), SortKey(s[Len(s)])) 
    THEN Append(Insert(SubSeq(s, 1, Len(s) - 1), c), s[Len(s)])
    ELSE Append(s, c)

RECURSIVE SortCards(_)
SortCards(s) ==
    IF s = <<>> THEN s
    ELSE Insert(SortCards(SubSeq(s, 1, Len(s) - 1)), s[Len(s)])

----------------------------------------------------------------------------
(* The program's constants.                                                *)

SET_IDS ==
    <<"OP-01", "OP-02", "OP-03", "OP-04", "OP-05", "OP-06", "OP-07", "OP-08",
      "OP-09", "OP-10", "OP-11", "OP-12", "OP-13", "OP-14",
      "EB-01", "EB-02",
      "PRB-01">>

ST_IDS ==
    <<"ST-01", "ST-02", "ST-03", "ST-04", "ST-05", "ST-06", "ST-07", "ST-08",
      "ST-09", "ST-10", "ST-11", "ST-12", "ST-13", "ST-14", "ST-15", "ST-16",
      "ST-17", "ST-18", "ST-19", "ST-20", "ST-21">>

\* the identifiers the fallback loops of the model iterate: a prefix of each list
SetIds == SubSeq(SET_IDS, 1, IF MaxFallback < Len(SET_IDS) THEN MaxFallback ELSE Len(SET_IDS))
DeckIds == SubSeq(ST_IDS, 1, IF MaxFallback < Len(ST_IDS) THEN MaxFallback ELSE Len(ST_IDS))

\* the URLs below API_BASE
UrlAllSetCards == <<"allSetCards">>
UrlAllSTCards == <<"allSTCards">>
UrlSet(sid) == <<"sets", sid>>
UrlDeck(sid) == <<"decks", sid>>
UrlPromos == <<"sets", "PRB-01">>

----------------------------------------------------------------------------
(* The source: what a request can be answered with, and the records a      *)
(* response list can hold (JSON objects whose card_set_id and              *)
(* card_image_id are strings, null or missing).                            *)

OP01_001 == <<"O", "P", "0", "1", "-", "0", "0", "1">>
ST01_001 == <<"S", "T", "0", "1", "-", "0", "0", "1">>
OP01_001_p1 == OP01_001 \o <<"_", "p", "1">>
Luffy == <<"L", "u", "f", "f", "y">>
LuffyDup == Luffy \o <<"-", "d", "u", "p">>

RawCard(id, img, name, type, cost, power, counter, life) ==
    [card_set_id |-> id, card_image_id |-> img, card_name |-> name,
     card_type |-> type, card_cost |-> cost, card_power |-> power,
     counter_amount |-> counter, life |-> life]

\* the records of the source's lists
SourceCards ==
    {RawCard(id, img, name, Absent, cost, Absent, Absent, Absent) :
        id \in {Absent, Str(OP01_001), Str(ST01_001)},
        img \in {Null, Str(OP01_001_p1)},
        name \in {Str(Luffy), Str(LuffyDup)},
        cost \in {Null, JInf(FALSE)}}

\* requests.get raises (a transport error, a timeout); or a status, a body that
\* is malformed JSON, a JSON object or a JSON list, and the length of that list
Responses ==
    {[raises |-> e, status |-> 0, body |-> "none", len |-> 0] :
        e \in {"ConnectionError", "Timeout"}}
    \cup {[raises |-> "none", status |-> 404, body |-> "list", len |-> 1]}
    \cup {[raises |-> "none", status |-> 200, body |-> b, len |-> 0] :
            b \in {"malformed", "object"}}
    \cup {[raises |-> "none", status |-> 200, body |-> "list", len |-> k] :
            k \in 0..MaxResp}

\* a fetch_json that does not look at the status code
FetchJsonAnyStatus(r) ==
    IF r.raises # "none" THEN [err |-> "none", len |-> 0]
    ELSE IF r.body = "list" THEN [err |-> "none", len |-> r.len]
    ELSE [err |-> "none", len |-> 0]

\* fetch_json: the exception that leaves it, and the length of the list it returns
FetchJson(r) ==
    IF r.raises # "none" THEN [err |-> "none", len |-> 0]
    ELSE IF r.status = 200
    THEN IF r.body = "malformed" THEN [err |-> "none", len |-> 0]
         ELSE IF r.body = "list" THEN [err |-> "none", len |-> r.len]
         ELSE [err |-> "none", len |-> 0]
    ELSE [err |-> "none", len |-> 0]

----------------------------------------------------------------------------
(* add_cards.                                                              *)

\* img_id = card.get("card_image_id") or ""
ImgId(card) ==
    LET v == Get(card, "card_image_id", Null)
    IN IF Truthy(v) THEN v.s ELSE <<>>

\* a filter that only knows the first parallel print
IsParallelP2(card) == Contains(ImgId(card), <<"_", "p", "2">>)

\* "_p" in img_id
IsParallel(card) == Contains(ImgId(card), <<"_", "p">>)

\* a dedup that forgets the seen set
IsNewIgnoringSeen(card, seenIds) ==
    Truthy(Get(card, "card_set_id", Str(<<>>)))

\* cid and cid not in seen
IsNew(card, seenIds) ==
    LET cid == Get(card, "card_set_id", Str(<<>>))
    IN Truthy(cid) /\ cid \notin seenIds

\* whether the loop body appends card
Keeps(card, seenIds) == ~IsParallel(card) /\ IsNew(card, seenIds)

----------------------------------------------------------------------------
(* History kept for the properties: what the source delivered.             *)

SourceIds == {c.card_set_id.s : c \in {d \in SourceCards : Truthy(d.card_set_id)}}

NoCard == RawCard(Absent, Absent, Absent, Absent, Absent, Absent, Absent, Absent)

\* the image id of card holds the characters "_", "p" next to each other
HasMarker(card) ==
    /\ card.card_image_id.t = "str"
    /\ \E i \in 1..(Len(card.card_image_id.s) - 1) :
          /\ card.card_image_id.s[i] = "_"
          /\ card.card_image_id.s[i + 1] = "p"

HasId(card) == card.card_set_id.t = "str" /\ card.card_set_id.s # <<>>

Record(first, card, counts) ==
    IF HasId(card) /\ counts /\ first[card.card_set_id.s] = NoCard
    THEN [first EXCEPT ![card.card_set_id.s] = card]
    ELSE first

Observe(card) ==
    /\ delivered' = IF HasId(card) THEN delivered \cup {card.card_set_id.s} ELSE delivered
    /\ repeated' = IF HasId(card) /\ card.card_set_id.s \in delivered
                   THEN repeated \cup {card.card_set_id.s} ELSE repeated
    /\ first_any' = Record(first_any, card, TRUE)
    /\ first_plain' = Record(first_plain, card, ~HasMarker(card))

\* a response that is not a 200 with a JSON list: an exception raised by the
\* request, another status, a body that does not parse, a JSON value of another type
IsFailure(r) ==
    r.raises # "none" \/ r.status # 200 \/ r.body # "list"

----------------------------------------------------------------------------
(* fetch_all_cards.                                                        *)

Init ==
    /\ pc = "bulk_sets"
    /\ idx = 0
    /\ failed = FALSE
    /\ remaining = 0
    /\ count = 0
    /\ all_raw = <<>>
    /\ seen = {}
    /\ requests = <<>>
    /\ bulk_empty = {}
    /\ bulk_kept = {}
    /\ delivered = {}
    /\ repeated = {}
    /\ first_any = [i \in SourceIds |-> NoCard]
    /\ first_plain = [i \in SourceIds |-> NoCard]
    /\ sorted_runs = 0
    /\ card_list = <<>>
    /\ exc = "none"
    /\ exit_status = -1
    /\ writes = <<>>

histVars == <<delivered, repeated, first_any, first_plain>>

\* where control goes when add_cards has returned at a call site
AfterAdd(site, i) ==
    CASE site = "add_bulk_sets" -> [pc |-> "bulk_st", idx |-> 0]
      [] site = "add_set" ->
           IF i < Len(SetIds) THEN [pc |-> "per_set", idx |-> i + 1]
           ELSE [pc |-> "bulk_st", idx |-> 0]
      [] site = "add_bulk_st" -> [pc |-> "promos", idx |-> 0]
      [] site = "add_deck" ->
           IF i < Len(DeckIds) THEN [pc |-> "per_deck", idx |-> i + 1]
           ELSE [pc |-> "promos", idx |-> 0]
      [] site = "add_promos" -> [pc |-> "fetched", idx |-> 0]

\* a bulk test that wants more than one record
BulkTruthyMany(len) == len > 1

\* if bulk: a list is true when it is not empty
BulkTruthy(len) == len > 0

\* bulk = fetch_json(url); if bulk: add_cards(bulk) else: the fallback loop
FetchBulk(site, url, group, addSite, loopSite) ==
    /\ pc = site
    /\ \E r \in Responses :
         LET got == FetchJson(r)
         IN /\ failed' = IsFailure(r)
            /\ requests' = Append(requests, url)
            /\ IF got.err # "none"
               THEN /\ pc' = "raised" /\ exc' = got.err /\ exit_status' = 1
                    /\ UNCHANGED <<idx, remaining, bulk_empty>>
               ELSE /\ UNCHANGED <<exc, exit_status>>
                    /\ bulk_empty' = IF got.len = 0 THEN bulk_empty \cup {group}
                                     ELSE bulk_empty
                    /\ IF BulkTruthy(got.len)
                       THEN /\ pc' = addSite /\ remaining' = got.len
                            /\ UNCHANGED idx
                       ELSE /\ pc' = loopSite /\ idx' = 1
                            /\ UNCHANGED remaining
    /\ UNCHANGED <<count, all_raw, seen, bulk_kept, histVars, sorted_runs, card_list, writes>>

\* cards = fetch_json(url); n = add_cards(cards), inside a fallback loop
FetchItem(site, url, addSite) ==
    /\ pc = site
    /\ \E r \in Responses :
         LET got == FetchJson(r)
             next == AfterAdd(addSite, idx)
         IN /\ failed' = IsFailure(r)
            /\ requests' = Append(requests, url)
            /\ IF got.err # "none"
               THEN /\ pc' = "raised" /\ exc' = got.err /\ exit_status' = 1
                    /\ UNCHANGED <<idx, remaining>>
               ELSE /\ UNCHANGED <<exc, exit_status>>
                    /\ IF got.len > 0
                       THEN /\ pc' = addSite /\ remaining' = got.len
                            /\ UNCHANGED idx
                       ELSE /\ pc' = next.pc /\ idx' = next.idx
                            /\ UNCHANGED remaining
    /\ UNCHANGED <<count, all_raw, seen, bulk_empty, bulk_kept, histVars, sorted_runs,
                   card_list, writes>>

\* one iteration of add_cards' loop, on the next element of the fetched list;
\* after the last one add_cards returns count (printed as n) and control moves on
AddCards(site, group) ==
    /\ pc = site
    /\ remaining > 0
    /\ \E card \in SourceCards :
         LET keep == Keeps(card, seen)
             kept == IF keep THEN count + 1 ELSE count
             next == AfterAdd(site, idx)
         IN /\ all_raw' = IF keep THEN Append(all_raw, card) ELSE all_raw
            /\ seen' = IF keep THEN seen \cup {card.card_set_id} ELSE seen
            /\ remaining' = remaining - 1
            /\ Observe(card)
            /\ IF remaining = 1
               THEN /\ pc' = next.pc /\ idx' = next.idx /\ count' = 0
                    /\ bulk_kept' = IF kept > 0 THEN bulk_kept \cup group ELSE bulk_kept
               ELSE /\ count' = kept
                    /\ UNCHANGED <<pc, idx, bulk_kept>>
    /\ UNCHANGED <<failed, requests, bulk_empty, sorted_runs, card_list, exc,
                   exit_status, writes>>

FetchBulkSets == FetchBulk("bulk_sets", UrlAllSetCards, "sets", "add_bulk_sets", "per_set")
AddBulkSets == AddCards("add_bulk_sets", {"sets"})
FetchSet == FetchItem("per_set", UrlSet(SetIds[idx]), "add_set")
AddSet == AddCards("add_set", {})
FetchBulkST == FetchBulk("bulk_st", UrlAllSTCards, "st", "add_bulk_st", "per_deck")
AddBulkST == AddCards("add_bulk_st", {"st"})
FetchDeck == FetchItem("per_deck", UrlDeck(DeckIds[idx]), "add_deck")
AddDeck == AddCards("add_deck", {})

\* promos = fetch_json(.../sets/PRB-01/); if promos: add_cards(promos); return all_raw
FetchPromos ==
    /\ pc = "promos"
    /\ \E r \in Responses :
         LET got == FetchJson(r)
         IN /\ failed' = IsFailure(r)
            /\ requests' = Append(requests, UrlPromos)
            /\ IF got.err # "none"
               THEN /\ pc' = "raised" /\ exc' = got.err /\ exit_status' = 1
                    /\ UNCHANGED remaining
               ELSE /\ UNCHANGED <<exc, exit_status>>
                    /\ IF got.len > 0
                       THEN pc' = "add_promos" /\ remaining' = got.len
                       ELSE pc' = "fetched" /\ UNCHANGED remaining
    /\ UNCHANGED <<idx, count, all_raw, seen, bulk_empty, bulk_kept, histVars, sorted_runs,
                   card_list, writes>>

AddPromos == AddCards("add_promos", {})

----------------------------------------------------------------------------
(* main.                                                                   *)

collectVars == <<idx, failed, remaining, count, seen, requests, bulk_empty, bulk_kept, histVars>>

\* if not raw_cards: sys.exit(1)
ExitNoCards ==
    /\ pc = "fetched"
    /\ all_raw = <<>>
    /\ pc' = "exited"
    /\ exit_status' = 1
    /\ UNCHANGED <<all_raw, collectVars, sorted_runs, card_list, exc, writes>>

\* raw_cards.sort(key=...)
Sort ==
    /\ pc = "fetched"
    /\ all_raw # <<>>
    /\ all_raw' = SortCards(all_raw)
    /\ sorted_runs' = sorted_runs + 1
    /\ pc' = "sorted"
    /\ UNCHANGED <<collectVars, card_list, exc, exit_status, writes>>

\* card_list = convert_to_tcg_arena(raw_cards); an exception leaving it ends the run
Convert ==
    /\ pc = "sorted"
    /\ LET r == convert_to_tcg_arena(all_raw)
       IN IF r.err = "none"
          THEN /\ card_list' = r.card_list /\ pc' = "converted"
               /\ UNCHANGED <<exc, exit_status>>
          ELSE /\ exc' = r.err /\ pc' = "raised" /\ exit_status' = 1
               /\ UNCHANGED card_list
    /\ UNCHANGED <<all_raw, collectVars, sorted_runs, writes>>

\* json.dump(card_list, f, ...) into CardList.json
Write ==
    /\ pc = "converted"
    /\ writes' = Append(writes, card_list)
    /\ pc' = "written"
    /\ UNCHANGED <<all_raw, collectVars, sorted_runs, card_list, exc, exit_status>>

\* the summary reads card_list and prints; main returns
Summary ==
    /\ pc = "written"
    /\ pc' = "done"
    /\ exit_status' = 0
    /\ UNCHANGED <<all_raw, collectVars, sorted_runs, card_list, exc, writes>>

Next ==
    \/ FetchBulkSets \/ AddBulkSets \/ FetchSet \/ AddSet
    \/ FetchBulkST \/ AddBulkST \/ FetchDeck \/ AddDeck
    \/ FetchPromos \/ AddPromos
    \/ ExitNoCards \/ Sort \/ Convert \/ Write \/ Summary

Spec == Init /\ [][Next]_vars

----------------------------------------------------------------------------
(* Properties of the collector and of main, checked under Spec.            *)

Positions(id) == {k \in 1..Len(all_raw) : all_raw[k].card_set_id = Str(id)}

Returned == pc = "fetched"

\* C1 as stated: when fetch_all_cards returns, every identifier that occurred
\* in a response is in the list exactly once, with the first record seen for it.
C1_FirstSeenKept ==
    Returned =>
        \A id \in delivered :
            /\ Cardinality(Positions(id)) = 1
            /\ \A k \in Positions(id) : all_raw[k] = first_any[id]

\* C1, amended: when fetch_all_cards returns, the list holds exactly the
\* identifiers that occurred in a record without the variant marker, each
\* once, with the first such record seen for it, and no record without an
\* identifier.
C1_FirstPlainKept ==
    Returned =>
        /\ \A k \in 1..Len(all_raw) : HasId(all_raw[k])
        /\ \A id \in SourceIds :
             IF first_plain[id] = NoCard
             THEN Positions(id) = {}
             ELSE /\ Cardinality(Positions(id)) = 1
                  /\ \A k \in Positions(id) : all_raw[k] = first_plain[id]

\* an identifier came twice without the marker-free one being first, another
\* came twice too, and both are in the returned list
C1_Witness ==
    /\ Returned
    /\ repeated = SourceIds
    /\ Len(all_raw) = 2
    /\ \E id \in SourceIds : HasMarker(first_any[id]) /\ first_plain[id] # NoCard
    /\ \E id \in SourceIds : first_any[id] = first_plain[id]

\* C2: at every point of the run no record of the accumulated list has the
\* variant marker "_p" in its image id, whatever its identifier.
C2_NoParallelKept ==
    \A k \in 1..Len(all_raw) : ~HasMarker(all_raw[k])

\* a record with the marker was the first of its identifier, the identifier
\* was kept from a later record, and a marked record of a new identifier came too
C2_Witness ==
    /\ \E id \in SourceIds : HasMarker(first_any[id]) /\ Positions(id) # {}
    /\ \E id \in SourceIds : HasMarker(first_any[id]) /\ Positions(id) = {}

RequestSites == {"bulk_sets", "per_set", "bulk_st", "per_deck", "promos"}

Ended == pc \in {"done", "exited", "raised"}

\* C6 as stated: the run ends either with no record, exit status non-zero and
\* nothing sorted, converted or written, or with at least one record, sorted
\* once, converted, written exactly once and exit status zero.
C6_TwoEndings ==
    Ended =>
        \/ /\ all_raw = <<>>
           /\ exit_status # 0
           /\ sorted_runs = 0 /\ card_list = <<>> /\ writes = <<>>
        \/ /\ all_raw # <<>>
           /\ exit_status = 0
           /\ sorted_runs = 1 /\ Len(writes) = 1 /\ writes[1] = card_list

Converted == pc \in {"converted", "written", "done"}

Entries(id) == {k \in 1..Len(card_list) : card_list[k].key = Str(id)}

GroupRequests(bulkUrl, itemUrls, fallback) ==
    <<bulkUrl>> \o (IF fallback THEN itemUrls ELSE <<>>)

SetUrls == [k \in 1..Len(SetIds) |-> UrlSet(SetIds[k])]
DeckUrls == [k \in 1..Len(DeckIds) |-> UrlDeck(DeckIds[k])]

IsPrefix(a, b) == Len(a) <= Len(b) /\ a = SubSeq(b, 1, Len(a))

\* C9 as stated: per group one bulk request, followed by one request per
\* identifier, in list order, exactly when add_cards kept no record of the
\* bulk response.
C9_FallbackIffNothingKept ==
    Returned =>
        requests = GroupRequests(UrlAllSetCards, SetUrls, "sets" \notin bulk_kept)
                   \o GroupRequests(UrlAllSTCards, DeckUrls, "st" \notin bulk_kept)
                   \o <<UrlPromos>>

\* C9, amended: per group one bulk request, followed by one request per
\* identifier, in list order and once each, exactly when fetch_json gave an
\* empty list for the bulk request (an error, a non-list body, an empty
\* list); a non-empty bulk list of which no record is kept has no fallback.
C9_FallbackIffBulkEmpty ==
    LET whole == GroupRequests(UrlAllSetCards, SetUrls, "sets" \in bulk_empty)
                 \o GroupRequests(UrlAllSTCards, DeckUrls, "st" \in bulk_empty)
                 \o <<UrlPromos>>
    IN /\ pc \in {"bulk_sets", "add_bulk_sets", "per_set", "add_set"} =>
            IsPrefix(requests, GroupRequests(UrlAllSetCards, SetUrls, "sets" \in bulk_empty))
       /\ IsPrefix(requests, whole)
       /\ Returned => requests = whole

\* the set bulk request failed and the loop ran; the starter-deck bulk list
\* was not empty, none of its records was kept, and no loop ran
C9_Witness ==
    /\ Returned
    /\ "sets" \in bulk_empty
    /\ "st" \notin bulk_empty
    /\ "st" \notin bulk_kept
    /\ Len(requests) = Len(SetIds) + 3

----------------------------------------------------------------------------
(* convert_to_tcg_arena as a function of its argument: the state is that   *)
(* of the call in main, with raw_cards drawn from a bounded set of inputs  *)
(* (any sequence, also unsorted, with repeated or missing identifiers).    *)

CallConvert(raw_cards) ==
    /\ pc = "sorted"
    /\ all_raw = raw_cards
    /\ idx = 0
    /\ failed = FALSE
    /\ remaining = 0
    /\ count = 0
    /\ seen = {}
    /\ requests = <<>>
    /\ bulk_empty = {}
    /\ bulk_kept = {}
    /\ delivered = {}
    /\ repeated = {}
    /\ first_any = [i \in SourceIds |-> NoCard]
    /\ first_plain = [i \in SourceIds |-> NoCard]
    /\ sorted_runs = 0
    /\ card_list = <<>>
    /\ exc = "none"
    /\ exit_status = -1
    /\ writes = <<>>

\* the values a numeric field of a raw record can hold
NumValues ==
    {Absent, Null, JBool(TRUE), JBool(FALSE), JList, JObject,
     NaN, JInf(FALSE), JInf(TRUE)}
    \cup {JInt(i) : i \in -1..MaxNum}
    \cup {JFloat(h) : h \in {-3, -1, 2 * MaxNum, 2 * MaxNum + 1}}
    \cup {Str(str) : str \in {<<"3">>, <<"-", "2">>, <<" ", "1", "2", " ">>, <<"3", ".", "0">>,
                              <<"a", "b", "c">>, <<>>}}

NumFields == {"card_cost", "card_power", "counter_amount", "life"}

\* one record with an identifier: one numeric field holds any value, the
\* other three hold one common value
CoerceInputs ==
    {[f \in {"card_set_id", "card_image_id", "card_name", "card_type"} \cup NumFields |->
        CASE f = "card_set_id" -> Str(OP01_001)
          [] f = "card_name" -> Str(Luffy)
          [] f \in {"card_image_id", "card_type"} -> Absent
          [] f = field -> v
          [] OTHER -> w] :
        field \in NumFields, v \in NumValues,
        w \in {Absent, JInt(MaxNum), JInt(-1), Str(<<"a", "b", "c">>)}}

InitCoerce == \E raw \in CoerceInputs : CallConvert(<<raw>>)

SpecCoerce == InitCoerce /\ [][Convert]_vars

OP01_077 == <<"O", "P", "0", "1", "-", "0", "7", "7">>
PROMO == <<"P", "R", "O", "M", "O">>
OP01 == <<"O", "P", "0", "1">>

\* identifiers: every string of up to MaxIdLen characters of a small
\* alphabet with the separator in it, and two printed ones
GroupIds ==
    UNION {[1..k -> {"O", "1", "-"}] : k \in 1..MaxIdLen} \cup {OP01_077, PROMO}

InitGroup ==
    \E id \in GroupIds :
        CallConvert(<<RawCard(Str(id), Absent, Absent, Absent, Absent, Absent, Absent, Absent)>>)

SpecGroup == InitGroup /\ [][Convert]_vars

A_1 == <<"A", "-", "1">>
B_2 == <<"B", "-", "2">>

\* records with a missing, null, empty or present identifier and a name
MappingCards ==
    {RawCard(id, Absent, name, Absent, Absent, Absent, Absent, Absent) :
        id \in {Absent, Null, Str(<<>>), Str(A_1), Str(B_2)},
        name \in {Str(Luffy), Str(LuffyDup)}}

InitMapping ==
    \E k \in 0..MaxIn : \E raws \in [1..k -> MappingCards] : CallConvert(raws)

SpecMapping == InitMapping /\ [][Convert]_vars

----------------------------------------------------------------------------
(* Properties of convert_to_tcg_arena.                                     *)

Called == pc # "sorted"

\* C3 as stated: for a record with an identifier and any value of card_cost,
\* card_power, counter_amount and life, the conversion completes with an
\* entry for the record and raises nothing.
C3_CoercionNeverRaises ==
    Called => pc = "converted" /\ exc = "none" /\ Len(card_list) = 1

IsNatStr(str) == str # <<>> /\ \A k \in 1..Len(str) : IsDigit(str[k])

\* absent, null, or a value int() does not convert
NoInt(v) == v.t \in {"absent", "null"} \/ PyInt(v).err # "none"

\* C4 as stated: every coerced output of an entry is a non-negative integer
\* (cost at top level and in face.front; Cost, Power, Counter and Life as
\* its decimal string), zero when the input is absent, null or fails
\* integer conversion; the float 3.0 gives 3 and "abc" gives 0.
C4_NonNegativeOrZero ==
    pc = "converted" =>
        LET raw == all_raw[1]
            e == card_list[1].value
        IN /\ e.cost >= 0 /\ e.face.front.cost >= 0
           /\ IsNatStr(e.Cost) /\ IsNatStr(e.Power)
           /\ IsNatStr(e.Counter) /\ IsNatStr(e.Life)
           /\ NoInt(raw.card_cost) =>
                e.cost = 0 /\ e.face.front.cost = 0 /\ e.Cost = <<"0">>
           /\ NoInt(raw.card_power) => e.Power = <<"0">>
           /\ NoInt(raw.counter_amount) => e.Counter = <<"0">>
           /\ NoInt(raw.life) => e.Life = <<"0">>
           /\ raw.card_cost = JFloat(6) => e.cost = 3 /\ e.Cost = <<"3">>
           /\ raw.card_cost = Str(<<"a", "b", "c">>) => e.cost = 0

Seps(id) == {k \in 1..Len(id) : id[k] = "-"}

\* C8: the Set field of an entry is the identifier up to its last "-", the
\* "-" left out, and the whole identifier when it holds no "-"; "OP01-077"
\* gives "OP01" and "PROMO" gives "PROMO".
C8_GroupCode ==
    pc = "converted" =>
        LET id == all_raw[1].card_set_id.s
            code == card_list[1].value.Set
        IN /\ Seps(id) = {} => code = id
           /\ \A k \in Seps(id) :
                (\A m \in Seps(id) : m <= k) => code = SubSeq(id, 1, k - 1)
           /\ id = OP01_077 => code = OP01
           /\ id = PROMO => code = PROMO

\* an identifier with two separators, cut at the second
C8_Witness ==
    /\ pc = "converted"
    /\ all_raw[1].card_set_id.s = <<"O", "-", "1", "-">>
    /\ card_list[1].value.Set = <<"O", "-", "1">>

HasKey(raw) == raw.card_set_id.t = "str" /\ raw.card_set_id.s # <<>>

KeyIndex(raws) == {k \in 1..Len(raws) : HasKey(raws[k])}

\* the positions of raws that are the first with their identifier
FirstIndex(raws) ==
    {k \in KeyIndex(raws) :
        \A m \in KeyIndex(raws) : raws[m].card_set_id = raws[k].card_set_id => k <= m}

\* C10: the call returns, without raising, a mapping whose keys are the
\* non-empty identifiers of the input, in the order in which each first
\* occurs; every entry's id is its key; the entry of an identifier comes
\* from the last input record with it; and the input is left as it was.
C10_MappingOfInput ==
    /\ [](Called =>
            /\ pc = "converted"
            /\ {card_list[k].key : k \in 1..Len(card_list)}
                 = {all_raw[k].card_set_id : k \in KeyIndex(all_raw)}
            /\ Len(card_list) = Cardinality(FirstIndex(all_raw))
            /\ \A k \in 1..Len(card_list) :
                 /\ card_list[k].value.id = card_list[k].key
                 /\ \E f \in FirstIndex(all_raw) :
                      /\ all_raw[f].card_set_id = card_list[k].key
                      /\ Cardinality({m \in FirstIndex(all_raw) : m <= f}) = k
                 /\ \A m \in KeyIndex(all_raw) :
                      (/\ all_raw[m].card_set_id = card_list[k].key
                       /\ \A j \in KeyIndex(all_raw) :
                            all_raw[j].card_set_id = all_raw[m].card_set_id => j <= m)
                      => card_list[k].value.name = all_raw[m].card_name)
    /\ [][all_raw' = all_raw]_vars

\* B-2 as Luffy, a record without identifier, A-1, then B-2 again as
\* Luffy-dup: two keys, B-2 first, B-2's entry named Luffy-dup
C10_Witness ==
    /\ pc = "converted"
    /\ Len(all_raw) = 4
    /\ all_raw[1].card_set_id = Str(B_2) /\ all_raw[1].card_name = Str(Luffy)
    /\ all_raw[2].card_set_id = Absent
    /\ all_raw[3].card_set_id = Str(A_1)
    /\ all_raw[4].card_set_id = Str(B_2) /\ all_raw[4].card_name = Str(LuffyDup)
    /\ Len(card_list) = 2
    /\ card_list[1].key = Str(B_2) /\ card_list[1].value.name = Str(LuffyDup)
    /\ card_list[2].key = Str(A_1)

====
